---- MODULE Spec2Model ----
(***************************************************************************)
(* Model of the drone-testng plugin (src/plugin/plugin.go): input          *)
(* validation, file location, concurrent per-file processing and merge in  *)
(* Exec, and the threshold evaluation.                                     *)
(*                                                                         *)
(* Go's float64 is modelled as IEEE 754 binary64 restricted to the finite  *)
(* non-negative values: a value is [m, e] standing for m * 2^e, where m is *)
(* either zero or a 53-bit significand (2^52 <= m < 2^53).  Significands   *)
(* are little-endian sequences of 15-bit limbs, because TLC's integers are *)
(* 32 bits wide.  Every arithmetic step is computed exactly and rounded    *)
(* once, to nearest, ties to even, as the hardware does.                   *)
(***************************************************************************)
EXTENDS Integers, Sequences, FiniteSets, TLC

\* ------------------------------------------------------------------------
\* Arbitrary-precision naturals (helpers of the float64 model)
\* ------------------------------------------------------------------------
LimbBits == 5 * 3
LimbBase == 2^LimbBits
MantBits == 52 + 1

RECURSIVE BitLen(_)
BitLen(n) == IF n = 0 THEN 0 ELSE 1 + BitLen(n \div 2)

RECURSIVE BigTrim(_)
BigTrim(s) ==
    IF s = <<>> THEN s
    ELSE IF s[Len(s)] = 0 THEN BigTrim(SubSeq(s, 1, Len(s) - 1)) ELSE s

RECURSIVE BigFromInt(_)
BigFromInt(n) ==
    IF n = 0 THEN <<>> ELSE <<n % LimbBase>> \o BigFromInt(n \div LimbBase)

BigBitLen(s) ==
    IF s = <<>> THEN 0 ELSE LimbBits * (Len(s) - 1) + BitLen(s[Len(s)])

RECURSIVE BigMulCarry(_, _, _)
BigMulCarry(s, c, carry) ==
    IF s = <<>>
    THEN BigFromInt(carry)
    ELSE LET p == Head(s) * c + carry
         IN  <<p % LimbBase>> \o BigMulCarry(Tail(s), c, p \div LimbBase)

BigMulSmall(s, c) == BigTrim(BigMulCarry(s, c, 0))

RECURSIVE BigAddCarry(_, _, _)
BigAddCarry(a, b, carry) ==
    IF a = <<>> /\ b = <<>>
    THEN BigFromInt(carry)
    ELSE LET x == IF a = <<>> THEN 0 ELSE Head(a)
             y == IF b = <<>> THEN 0 ELSE Head(b)
             t == x + y + carry
         IN  <<t % LimbBase>>
               \o BigAddCarry(IF a = <<>> THEN a ELSE Tail(a),
                              IF b = <<>> THEN b ELSE Tail(b),
                              t \div LimbBase)

BigAdd(a, b) == BigTrim(BigAddCarry(a, b, 0))

BigShl(s, k) ==
    IF s = <<>> THEN s
    ELSE [i \in 1..(k \div LimbBits) |-> 0] \o BigMulSmall(s, 2^(k % LimbBits))

BigShr(s, k) ==
    LET j  == k \div LimbBits
        t  == k % LimbBits
        s1 == IF j >= Len(s) THEN <<>> ELSE SubSeq(s, j + 1, Len(s))
    IN  BigTrim([i \in 1..Len(s1) |->
                   (s1[i] \div 2^t)
                   + (IF i < Len(s1)
                      THEN (s1[i + 1] % 2^t) * 2^(LimbBits - t)
                      ELSE 0)])

BigBit(s, i) ==
    LET idx == i \div LimbBits + 1
    IN  IF idx > Len(s) THEN 0 ELSE (s[idx] \div 2^(i % LimbBits)) % 2

\* TRUE iff one of the k lowest bits of s is set
BigLowNonzero(s, k) ==
    \E i \in 1..Len(s) :
        /\ (i - 1) * LimbBits < k
        /\ IF i * LimbBits <= k
           THEN s[i] # 0
           ELSE s[i] % 2^(k - (i - 1) * LimbBits) # 0

RECURSIVE BigGt(_, _)
BigGt(a, b) ==
    IF Len(a) # Len(b) THEN Len(a) > Len(b)
    ELSE IF a = <<>> THEN FALSE
    ELSE IF a[Len(a)] # b[Len(b)] THEN a[Len(a)] > b[Len(b)]
    ELSE BigGt(SubSeq(a, 1, Len(a) - 1), SubSeq(b, 1, Len(b) - 1))

\* ------------------------------------------------------------------------
\* float64 (finite, non-negative)
\* ------------------------------------------------------------------------
F64Zero == [m |-> <<>>, e |-> 0]

\* The float64 nearest to (s + sticky) * 2^e, ties to even.  sticky stands
\* for a non-zero amount smaller than one unit of s.
RoundBig(s, sticky, e) ==
    LET n == BigBitLen(s)
    IN  IF n = 0 THEN F64Zero
        ELSE IF n <= MantBits
        THEN [m |-> BigShl(s, MantBits - n), e |-> e - (MantBits - n)]
        ELSE LET k     == n - MantBits
                 fl    == BigShr(s, k)
                 guard == BigBit(s, k - 1)
                 rest  == BigLowNonzero(s, k - 1) \/ sticky
                 up    == guard = 1 /\ (rest \/ BigBit(fl, 0) = 1)
                 m1    == IF up THEN BigAdd(fl, <<1>>) ELSE fl
             IN  IF BigBitLen(m1) > MantBits
                 THEN [m |-> BigShr(m1, 1), e |-> e + k + 1]
                 ELSE [m |-> m1, e |-> e + k]

\* float64(n) for an int n >= 0
F64FromInt(n) == RoundBig(BigFromInt(n), FALSE, 0)

\* x + y
F64Add(x, y) ==
    IF x.m = <<>> THEN y
    ELSE IF y.m = <<>> THEN x
    ELSE LET hi == IF x.e >= y.e THEN x ELSE y
             lo == IF x.e >= y.e THEN y ELSE x
             d  == hi.e - lo.e
         IN  IF d > MantBits + 2
             THEN hi
             ELSE RoundBig(BigAdd(BigShl(hi.m, d), lo.m), FALSE, lo.e)

\* float64(a) / float64(b) for ints 0 <= a, 0 < b < 2^15: the quotient a/b
\* developed to 75 fractional bits by long division, then rounded once.
RECURSIVE DivLimbs(_, _, _)
DivLimbs(r, b, n) ==
    IF n = 0 THEN <<>>
    ELSE DivLimbs((r * LimbBase) % b, b, n - 1) \o <<(r * LimbBase) \div b>>

RECURSIVE DivRem(_, _, _)
DivRem(r, b, n) == IF n = 0 THEN r ELSE DivRem((r * LimbBase) % b, b, n - 1)

F64DivInt(a, b) ==
    IF a = 0 THEN F64Zero
    ELSE RoundBig(BigTrim(DivLimbs(a % b, b, 5) \o BigFromInt(a \div b)),
                  DivRem(a % b, b, 5) # 0,
                  0 - 5 * LimbBits)

\* x * c for a float64 x and a small integer constant c
F64MulSmall(x, c) == RoundBig(BigMulSmall(x.m, c), FALSE, x.e)

\* The value of a small bignum
RECURSIVE BigToInt(_)
BigToInt(s) == IF s = <<>> THEN 0 ELSE Head(s) + LimbBase * BigToInt(Tail(s))

\* int(x): the integer part of x (x below 2^31)
F64ToInt(x) ==
    IF x.m = <<>> THEN 0
    ELSE IF x.e >= 0 THEN BigToInt(BigShl(x.m, x.e))
    ELSE BigToInt(BigShr(x.m, 0 - x.e))

\* The digits fmt prints for x under %.2f, as a number of hundredths: the
\* exact value of x times 100, rounded to the nearest integer, ties to even
F64Hundredths(x) ==
    IF x.m = <<>> THEN 0
    ELSE LET s == BigMulSmall(x.m, 100)
         IN  IF x.e >= 0 THEN BigToInt(BigShl(s, x.e))
             ELSE LET k     == 0 - x.e
                      fl    == BigShr(s, k)
                      guard == BigBit(s, k - 1)
                      rest  == BigLowNonzero(s, k - 1)
                      up    == guard = 1 /\ (rest \/ BigBit(fl, 0) = 1)
                  IN  BigToInt(fl) + (IF up THEN 1 ELSE 0)

\* x > y
F64Gt(x, y) ==
    IF x.m = <<>> THEN FALSE
    ELSE IF y.m = <<>> THEN TRUE
    ELSE x.e > y.e \/ (x.e = y.e /\ BigGt(x.m, y.m))

\* ------------------------------------------------------------------------
\* Program constants and values
\* ------------------------------------------------------------------------
ThresholdModeAbsolute   == "absolute"
ThresholdModePercentage == "percentage"
DefaultThresholdMode    == ThresholdModeAbsolute

\* A Go error value; Nil is the nil error.  kind names the message; for a
\* threshold error metric, observed and threshold are what the message
\* prints: the metric's name and the two numbers, as integers where the
\* format is %d and in hundredths where it is %.2f.
Nil == [kind |-> "nil", metric |-> "", observed |-> 0, threshold |-> 0]
Err(kind) == [kind |-> kind, metric |-> "", observed |-> 0, threshold |-> 0]

\* Results{} (the zero value)
ZeroResults == [Total |-> 0, Failures |-> 0, Skipped |-> 0, DurationMS |-> F64Zero]

\* The four += of a merge step
AddResults(a, b) ==
    [Total      |-> a.Total + b.Total,
     Failures   |-> a.Failures + b.Failures,
     Skipped    |-> a.Skipped + b.Skipped,
     DurationMS |-> F64Add(a.DurationMS, b.DurationMS)]

\* ------------------------------------------------------------------------
\* ValidateInputs.  args is passed by value: the assignment of the default
\* mode changes the callee's copy only, so the call yields just the error.
\* ------------------------------------------------------------------------
\* Mutant of ValidateInputs: the sign of the two limits is not checked
ValidateInputsNoSign(a) ==
    IF a.ReportFilenamePattern = ""
    THEN Err("missingPattern")
    ELSE IF a.ThresholdMode = ""
    THEN Nil
    ELSE IF a.ThresholdMode # ThresholdModeAbsolute
            /\ a.ThresholdMode # ThresholdModePercentage
    THEN Err("invalidThresholdMode")
    ELSE Nil

ValidateInputs(a) ==
    IF a.ReportFilenamePattern = ""
    THEN Err("missingPattern")
    ELSE IF a.FailedFails < 0 \/ a.FailedSkips < 0
    THEN Err("negativeThreshold")
    ELSE IF a.ThresholdMode = ""
    THEN Nil
    ELSE IF a.ThresholdMode # ThresholdModeAbsolute
            /\ a.ThresholdMode # ThresholdModePercentage
    THEN Err("invalidThresholdMode")
    ELSE Nil

\* ------------------------------------------------------------------------
\* Threshold evaluation
\* ------------------------------------------------------------------------
\* Mutant of checkThreshold: the comparison with the limit is >= in place of >
checkThresholdInclusive(metricName, actualValue, thresholdValue, isPercentage) ==
    IF F64Gt(thresholdValue, F64Zero) /\ ~F64Gt(thresholdValue, actualValue)
    THEN IF isPercentage
         THEN [kind |-> "rateExceeded", metric |-> metricName,
               observed |-> F64Hundredths(actualValue),
               threshold |-> F64Hundredths(thresholdValue)]
         ELSE [kind |-> "countExceeded", metric |-> metricName,
               observed |-> F64ToInt(actualValue),
               threshold |-> F64ToInt(thresholdValue)]
    ELSE Nil

checkThreshold(metricName, actualValue, thresholdValue, isPercentage) ==
    IF F64Gt(thresholdValue, F64Zero) /\ F64Gt(actualValue, thresholdValue)
    THEN IF isPercentage
         THEN [kind |-> "rateExceeded", metric |-> metricName,
               observed |-> F64Hundredths(actualValue),
               threshold |-> F64Hundredths(thresholdValue)]
         ELSE [kind |-> "countExceeded", metric |-> metricName,
               observed |-> F64ToInt(actualValue),
               threshold |-> F64ToInt(thresholdValue)]
    ELSE Nil

\* Mutant of validateAbsoluteThresholds: the skipped tests are checked first
validateAbsoluteThresholdsSkipFirst(results, a) ==
    LET e1 == checkThreshold("failed", F64FromInt(results.Failures),
                             F64FromInt(a.FailedFails), FALSE)
        e2 == checkThreshold("skipped", F64FromInt(results.Skipped),
                             F64FromInt(a.FailedSkips), FALSE)
    IN  IF e2 # Nil THEN e2 ELSE IF e1 # Nil THEN e1 ELSE Nil

validateAbsoluteThresholds(results, a) ==
    LET e1 == checkThreshold("failed", F64FromInt(results.Failures),
                             F64FromInt(a.FailedFails), FALSE)
        e2 == checkThreshold("skipped", F64FromInt(results.Skipped),
                             F64FromInt(a.FailedSkips), FALSE)
    IN  IF e1 # Nil THEN e1 ELSE IF e2 # Nil THEN e2 ELSE Nil

validatePercentageThresholds(results, a) ==
    LET totalTests == results.Total
    IN  IF totalTests = 0 THEN Nil
        ELSE LET failureRate == F64MulSmall(F64DivInt(results.Failures, totalTests), 100)
                 skipRate    == F64MulSmall(F64DivInt(results.Skipped, totalTests), 100)
                 e1 == checkThreshold("failure", failureRate,
                                      F64FromInt(a.FailedFails), TRUE)
                 e2 == checkThreshold("skip", skipRate,
                                      F64FromInt(a.FailedSkips), TRUE)
             IN  IF e1 # Nil THEN e1 ELSE IF e2 # Nil THEN e2 ELSE Nil

\* The switch on args.ThresholdMode
ModeCheck(results, a) ==
    IF a.ThresholdMode = ThresholdModeAbsolute
    THEN LET e == validateAbsoluteThresholds(results, a)
         IN  IF e # Nil THEN [e EXCEPT !.kind = "absoluteFailed"] ELSE Nil
    ELSE IF a.ThresholdMode = ThresholdModePercentage
    THEN LET e == validatePercentageThresholds(results, a)
         IN  IF e # Nil THEN [e EXCEPT !.kind = "percentageFailed"] ELSE Nil
    ELSE Err("invalidThresholdMode")

\* Mutant of validateThresholds: the failed-configuration check comes after
\* the switch on the mode
validateThresholdsModeFirst(results, a) ==
    IF ModeCheck(results, a) # Nil
    THEN ModeCheck(results, a)
    ELSE IF a.FailureOnFailedTestConfig /\ results.Failures > 0
    THEN Err("failedConfig")
    ELSE Nil

\* Mutant of validateThresholds: the switch has no default case
validateThresholdsFallThrough(results, a) ==
    IF a.FailureOnFailedTestConfig /\ results.Failures > 0
    THEN Err("failedConfig")
    ELSE IF a.ThresholdMode \in {ThresholdModeAbsolute, ThresholdModePercentage}
    THEN ModeCheck(results, a)
    ELSE Nil

validateThresholds(results, a) ==
    IF a.FailureOnFailedTestConfig /\ results.Failures > 0
    THEN Err("failedConfig")
    ELSE ModeCheck(results, a)

\* ------------------------------------------------------------------------
\* Report model and parsing
\* ------------------------------------------------------------------------
\* A duration-ms attribute is a sequence of characters.  The model covers
\* the decimal numerals without sign or exponent: digits alone, of any
\* length, and digits with one decimal point (at most nine digits, at most
\* four of them after the point), each converted to the nearest float64 as
\* strconv.ParseFloat does; and the values strconv rejects for holding no
\* digit, a second point or a letter.
DigitVal(c) ==
    CASE c = "0" -> 0 [] c = "1" -> 1 [] c = "2" -> 2 [] c = "3" -> 3
      [] c = "4" -> 4 [] c = "5" -> 5 [] c = "6" -> 6 [] c = "7" -> 7
      [] c = "8" -> 8 [] c = "9" -> 9 [] OTHER -> 0 - 1

\* The digits are taken four at a time to keep the recursion shallow.
RECURSIVE SmallVal(_)
SmallVal(chars) ==
    IF chars = <<>> THEN 0
    ELSE 10 * SmallVal(SubSeq(chars, 1, Len(chars) - 1)) + DigitVal(chars[Len(chars)])

RECURSIVE ParseDigits(_)
ParseDigits(chars) ==
    IF Len(chars) <= 4 THEN BigFromInt(SmallVal(chars))
    ELSE LET cut == Len(chars) - 4
         IN  BigAdd(BigMulSmall(ParseDigits(SubSeq(chars, 1, cut)), 10000),
                    BigFromInt(SmallVal(SubSeq(chars, cut + 1, Len(chars)))))

ParseFloat(chars) ==
    LET dots   == {k \in 1..Len(chars) : chars[k] = "."}
        digits == SelectSeq(chars, LAMBDA c : c # ".")
    IN  IF \/ Cardinality(dots) > 1
           \/ digits = <<>>
           \/ \E k \in 1..Len(digits) : DigitVal(digits[k]) < 0
        THEN [ok |-> FALSE, val |-> F64Zero]
        ELSE IF dots = {}
        THEN [ok |-> TRUE, val |-> RoundBig(ParseDigits(digits), FALSE, 0)]
        ELSE LET fraction == Len(chars) - (CHOOSE k \in dots : TRUE)
             IN  [ok |-> TRUE, val |-> F64DivInt(SmallVal(digits), 10^fraction)]

\* Mutant of ClassStep: the status is compared without regard to letter case
ClassStepAnyCase(acc, test) ==
    LET counted ==
            IF test.Status \in {"FAIL", "fail", "Fail"}
            THEN [acc EXCEPT !.results.Total = @ + 1,
                             !.results.Failures = @ + 1,
                             !.failed = Append(@, test.Name)]
            ELSE IF test.Status \in {"SKIP", "skip", "Skip"}
            THEN [acc EXCEPT !.results.Total = @ + 1,
                             !.results.Skipped = @ + 1,
                             !.skipped = Append(@, test.Name)]
            ELSE [acc EXCEPT !.results.Total = @ + 1]
        duration == ParseFloat(test.DurationMS)
    IN  IF ~duration.ok
        THEN counted
        ELSE [counted EXCEPT !.results.DurationMS = F64Add(@, duration.val)]

\* Mutant of ClassStep: a configuration method is not counted as a test
ClassStepLeavesOutConfig(acc, test) ==
    LET counted ==
            IF test.Status = "FAIL"
            THEN [acc EXCEPT !.results.Total = @ + 1,
                             !.results.Failures = @ + 1,
                             !.failed = Append(@, test.Name)]
            ELSE IF test.Status = "SKIP"
            THEN [acc EXCEPT !.results.Total = @ + 1,
                             !.results.Skipped = @ + 1,
                             !.skipped = Append(@, test.Name)]
            ELSE [acc EXCEPT !.results.Total = @ + 1]
        duration == ParseFloat(test.DurationMS)
    IN  IF test.IsConfig
        THEN acc
        ELSE IF ~duration.ok
        THEN counted
        ELSE [counted EXCEPT !.results.DurationMS = F64Add(@, duration.val)]

\* Mutant of ClassStep: the two status tests are independent, and a failed
\* record is taken for a skipped one as well
ClassStepBothBuckets(acc, test) ==
    LET counted ==
            IF test.Status = "FAIL"
            THEN [acc EXCEPT !.results.Total = @ + 1,
                             !.results.Failures = @ + 1,
                             !.results.Skipped = @ + 1,
                             !.failed = Append(@, test.Name),
                             !.skipped = Append(@, test.Name)]
            ELSE IF test.Status = "SKIP"
            THEN [acc EXCEPT !.results.Total = @ + 1,
                             !.results.Skipped = @ + 1,
                             !.skipped = Append(@, test.Name)]
            ELSE [acc EXCEPT !.results.Total = @ + 1]
        duration == ParseFloat(test.DurationMS)
    IN  IF ~duration.ok
        THEN counted
        ELSE [counted EXCEPT !.results.DurationMS = F64Add(@, duration.val)]

\* Mutant of ClassStep: the duration is parsed first, and a record whose
\* duration does not parse is passed over without being counted
ClassStepSkipsBadDuration(acc, test) ==
    LET duration == ParseFloat(test.DurationMS)
        counted ==
            IF test.Status = "FAIL"
            THEN [acc EXCEPT !.results.Total = @ + 1,
                             !.results.Failures = @ + 1,
                             !.failed = Append(@, test.Name)]
            ELSE IF test.Status = "SKIP"
            THEN [acc EXCEPT !.results.Total = @ + 1,
                             !.results.Skipped = @ + 1,
                             !.skipped = Append(@, test.Name)]
            ELSE [acc EXCEPT !.results.Total = @ + 1]
    IN  IF ~duration.ok
        THEN acc
        ELSE [counted EXCEPT !.results.DurationMS = F64Add(@, duration.val)]

\* One iteration of the loop of aggregateClassResults; acc holds the
\* results and the two name lists.
ClassStep(acc, test) ==
    LET counted ==
            IF test.Status = "FAIL"
            THEN [acc EXCEPT !.results.Total = @ + 1,
                             !.results.Failures = @ + 1,
                             !.failed = Append(@, test.Name)]
            ELSE IF test.Status = "SKIP"
            THEN [acc EXCEPT !.results.Total = @ + 1,
                             !.results.Skipped = @ + 1,
                             !.skipped = Append(@, test.Name)]
            ELSE [acc EXCEPT !.results.Total = @ + 1]
        duration == ParseFloat(test.DurationMS)
    IN  IF ~duration.ok
        THEN counted
        ELSE [counted EXCEPT !.results.DurationMS = F64Add(@, duration.val)]

EmptyAgg == [results |-> ZeroResults, failed |-> <<>>, skipped |-> <<>>]

RECURSIVE FoldTests(_, _)
FoldTests(acc, tests) ==
    IF tests = <<>> THEN acc ELSE FoldTests(ClassStep(acc, Head(tests)), Tail(tests))

aggregateClassResults(class) == FoldTests(EmptyAgg, class.Tests)

\* Merges a nested aggregate into the enclosing one
MergeAgg(acc, sub) ==
    [results |-> AddResults(acc.results, sub.results),
     failed  |-> acc.failed \o sub.failed,
     skipped |-> acc.skipped \o sub.skipped]

RECURSIVE FoldClasses(_, _)
FoldClasses(acc, classes) ==
    IF classes = <<>> THEN acc
    ELSE FoldClasses(MergeAgg(acc, aggregateClassResults(Head(classes))), Tail(classes))

aggregateSuiteResults(suite) == FoldClasses(EmptyAgg, suite.Classes)

RECURSIVE FoldSuites(_, _)
FoldSuites(acc, suites) ==
    IF suites = <<>> THEN acc
    ELSE FoldSuites(MergeAgg(acc, aggregateSuiteResults(Head(suites))), Tail(suites))

logTestNGReportDetails(report) == FoldSuites(EmptyAgg, report.Suites).results

\* A file is [exists, perm, wellFormed, report]: exists tells whether the
\* path still leads to a file (a match of the pattern can be a dangling link,
\* or be removed after the match), perm holds the nine permission bits of its
\* mode and wellFormed tells whether its XML decodes.  The plugin runs as the
\* owner of the files and without the privilege to bypass permissions, so
\* os.Open succeeds iff the file exists and its owner-read bit is set.
PermBit(perm, b) == (perm \div 2^b) % 2 = 1

OwnerRead == 2 * 4

ModeReadWrite == 6 * 64 + 4 * 8 + 4
ModeReadOnly == 4 * 64 + 4 * 8 + 4
ModeWriteOnly == 2 * 64
ModeNone == 0 * 64

\* Mutant of processFile: a report without suites is not rejected
processFileNoSuiteCheck(f) ==
    IF ~f.exists
    THEN [res |-> ZeroResults, err |-> Err("fileNotFound")]
    ELSE IF ~PermBit(f.perm, OwnerRead)
    THEN [res |-> ZeroResults, err |-> Err("permissionDenied")]
    ELSE IF ~f.wellFormed
    THEN [res |-> ZeroResults, err |-> Err("malformedXML")]
    ELSE [res |-> logTestNGReportDetails(f.report), err |-> Nil]

processFile(f) ==
    IF ~f.exists
    THEN [res |-> ZeroResults, err |-> Err("fileNotFound")]
    ELSE IF ~PermBit(f.perm, OwnerRead)
    THEN [res |-> ZeroResults, err |-> Err("permissionDenied")]
    ELSE IF ~f.wellFormed
    THEN [res |-> ZeroResults, err |-> Err("malformedXML")]
    ELSE IF Len(f.report.Suites) = 0
    THEN [res |-> ZeroResults, err |-> Err("noSuites")]
    ELSE [res |-> logTestNGReportDetails(f.report), err |-> Nil]

\* ------------------------------------------------------------------------
\* File location.  Paths are the indices of the files on disk.  The model
\* has three patterns: "*.xml" matches every file, "" matches none and "["
\* is malformed.
\* ------------------------------------------------------------------------
Glob(pattern, d) ==
    IF pattern = "[" THEN [err |-> Err("badPattern"), matches |-> <<>>]
    ELSE IF pattern = "*.xml" THEN [err |-> Nil, matches |-> [k \in 1..Len(d) |-> k]]
    ELSE [err |-> Nil, matches |-> <<>>]

\* os.Stat succeeds and fileInfo.Mode().Perm()&(1<<(uint(7))) != 0
IsReadable(d, path) == d[path].exists /\ PermBit(d[path].perm, 7)

locateFiles(pattern, d) ==
    LET g == Glob(pattern, d)
    IN  IF g.err # Nil
        THEN [files |-> <<>>, err |-> Err("searchFailed")]
        ELSE IF Len(g.matches) = 0
        THEN [files |-> <<>>, err |-> Err("noFilesFound")]
        ELSE LET validFiles == SelectSeq(g.matches, LAMBDA path : IsReadable(d, path))
             IN  IF Len(validFiles) = 0
                 THEN [files |-> <<>>, err |-> Err("noReadableFiles")]
                 ELSE [files |-> validFiles, err |-> Nil]

\* ------------------------------------------------------------------------
\* State
\* ------------------------------------------------------------------------
VARIABLES
    args,               \* the Args value Exec (or validateThresholds) is called with
    disk,               \* the files of the working directory, by path
    pc,                 \* position of the calling goroutine
    files,              \* Exec: the paths locateFiles returned
    spawned,            \* Exec: iterations done of the loop that starts the workers
    wpc,                \* per path: position of its worker goroutine
    resultsChan,        \* buffered channel of capacity len(files)
    errorsChan,         \* buffered channel of capacity len(files)
    i,                  \* Exec: counter of the collection loop
    aggregatedResults,  \* Exec: the accumulator
    skippedFiles,       \* Exec: the list of skipped paths
    collected,          \* history: the outcomes received, in order of receipt
    ret,                \* the value returned (Pending while running)
    class,              \* aggregateClassResults: the Class it is called with
    idx,                \* aggregateClassResults: records of class.Tests done
    results,            \* the Results a function builds and returns
    failedTests,        \* aggregateClassResults: names of the failed tests
    skippedTests        \* aggregateClassResults: names of the skipped tests

vars == <<args, disk, pc, files, spawned, wpc, resultsChan, errorsChan,
          i, aggregatedResults, skippedFiles, collected, ret,
          class, idx, results, failedTests, skippedTests>>

\* The variables of aggregateClassResults, and their values while it is
\* not running
classVars == <<class, idx, results, failedTests, skippedTests>>

NoClass ==
    /\ class = [Name |-> "", Tests |-> <<>>]
    /\ idx = 0
    /\ results = ZeroResults
    /\ failedTests = <<>>
    /\ skippedTests = <<>>

Pending == Err("pending")

\* ------------------------------------------------------------------------
\* Bounds and input sets
\* ------------------------------------------------------------------------
MaxFiles == 3
MaxTotal == 3
MaxLimit == 2
PctTotal == 20
PctLimit == 55

Modes == {"", ThresholdModeAbsolute, ThresholdModePercentage, "bogus"}

MkTest(name, status, duration) ==
    [Name |-> name, Status |-> status, DurationMS |-> duration, IsConfig |-> FALSE]

MkReport(tests) ==
    [Suites |-> << [Name |-> "suite", Classes |-> << [Name |-> "class", Tests |-> tests] >>] >>]

EmptyReport == [Suites |-> <<>>]

ReportFail == MkReport(<< MkTest("t1", "FAIL", <<"0", ".", "1">>) >>)
ReportSkip == MkReport(<< MkTest("t2", "SKIP", <<"0", ".", "4">>), MkTest("t3", "PASS", <<"x">>) >>)

MkFile(perm, wellFormed, report) ==
    [exists |-> TRUE, perm |-> perm, wellFormed |-> wellFormed, report |-> report]

ExecFiles ==
    { MkFile(ModeReadWrite, FALSE, EmptyReport),
      MkFile(ModeReadWrite, TRUE, ReportFail),
      MkFile(ModeReadWrite, TRUE, ReportSkip),
      MkFile(ModeNone, TRUE, ReportFail) }

Disks == UNION { [1..n -> ExecFiles] : n \in 0..MaxFiles }

\* Exec is run with the empty mode and the two known ones; unknown modes are
\* left to the specification of validateThresholds.
ExecArgs ==
    [ReportFilenamePattern : {"", "[", "*.xml"},
     FailedFails : {1}, FailedSkips : {1},
     FailureOnFailedTestConfig : BOOLEAN,
     ThresholdMode : Modes \ {"bogus"}]

ThrLimits == (0..MaxLimit) \cup {PctLimit}

ThrArgs ==
    [ReportFilenamePattern : {"*.xml"},
     FailedFails : ThrLimits, FailedSkips : ThrLimits,
     FailureOnFailedTestConfig : BOOLEAN,
     ThresholdMode : Modes]

ThrResults ==
    { [Total |-> t, Failures |-> f, Skipped |-> s, DurationMS |-> F64Zero] :
        t \in (0..MaxTotal) \cup {PctTotal}, f \in 0..PctTotal, s \in 0..PctTotal }

\* ------------------------------------------------------------------------
\* Exec
\* ------------------------------------------------------------------------
Idle(d) == [k \in 1..Len(d) |-> "idle"]

\* Glob reads the disk only for a pattern that can match, so the patterns
\* that match nothing are paired with the empty directory alone.
Init ==
    /\ args \in ExecArgs
    /\ disk \in (IF args.ReportFilenamePattern = "*.xml" THEN Disks ELSE {<<>>})
    /\ pc = "start"
    /\ files = <<>>
    /\ spawned = 0
    /\ wpc = Idle(disk)
    /\ resultsChan = <<>>
    /\ errorsChan = <<>>
    /\ i = 0
    /\ aggregatedResults = ZeroResults
    /\ skippedFiles = <<>>
    /\ collected = <<>>
    /\ ret = Pending
    /\ NoClass

\* Exec up to the creation of the channels
LocateReady == pc = "start"

ExecLocate ==
    /\ LocateReady
    /\ LET r == locateFiles(args.ReportFilenamePattern, disk)
       IN  IF r.err # Nil
           THEN /\ ret' = Err("failedToLocate")
                /\ pc' = "done"
                /\ files' = files
           ELSE IF Len(r.files) = 0
           THEN /\ ret' = Err("noReportFiles")
                /\ pc' = "done"
                /\ files' = files
           ELSE /\ files' = r.files
                /\ pc' = "spawn"
                /\ ret' = ret
    /\ UNCHANGED classVars
    /\ UNCHANGED <<args, disk, spawned, wpc, resultsChan, errorsChan, i,
                   aggregatedResults, skippedFiles, collected>>

\* One iteration of `for _, file := range files { go func ... }`
SpawnReady == pc = "spawn" /\ spawned < Len(files)

ExecSpawn ==
    /\ SpawnReady
    /\ spawned' = spawned + 1
    /\ wpc' = [wpc EXCEPT ![files[spawned + 1]] = "running"]
    /\ pc' = IF spawned + 1 = Len(files) THEN "collect" ELSE "spawn"
    /\ UNCHANGED classVars
    /\ UNCHANGED <<args, disk, files, resultsChan, errorsChan, i,
                   aggregatedResults, skippedFiles, collected, ret>>

\* Mutant of ChanCap: the channels buffer a single value
ChanCapOne(fs) == 1

\* make(chan Results, len(files)), make(chan error, len(files))
ChanCap(fs) == Len(fs)

\* The error a worker sends: fmt.Errorf("... %s: %w", f, err), a *fmt.wrapError
WrapError(f, err) == [type |-> "wrapError", file |-> f, cause |-> err.kind]

\* Mutant of Worker: the error branch lacks its return, so a worker whose
\* processFile failed sends on both channels
WorkerNoReturn(f) ==
    /\ wpc[f] = "running"
    /\ LET r == processFile(disk[f])
       IN  /\ Len(resultsChan) < ChanCap(files)
           /\ resultsChan' = Append(resultsChan, [file |-> f, res |-> r.res])
           /\ IF r.err # Nil
              THEN /\ Len(errorsChan) < ChanCap(files)
                   /\ errorsChan' = Append(errorsChan, WrapError(f, r.err))
              ELSE errorsChan' = errorsChan
    /\ wpc' = [wpc EXCEPT ![f] = "done"]
    /\ UNCHANGED classVars
    /\ UNCHANGED <<args, disk, pc, files, spawned, i,
                   aggregatedResults, skippedFiles, collected, ret>>

\* A worker goroutine: processFile, which reads nothing but the worker's own
\* file, and the one send that follows it.  A send blocks while its channel
\* is full.  The file field of a result message is history: the Go value
\* carries no path.
WorkerReady(f) ==
    /\ wpc[f] = "running"
    /\ IF processFile(disk[f]).err # Nil
       THEN Len(errorsChan) < ChanCap(files)
       ELSE Len(resultsChan) < ChanCap(files)

Worker(f) ==
    /\ WorkerReady(f)
    /\ LET r == processFile(disk[f])
       IN  IF r.err # Nil
           THEN /\ errorsChan' = Append(errorsChan, WrapError(f, r.err))
                /\ resultsChan' = resultsChan
           ELSE /\ resultsChan' = Append(resultsChan, [file |-> f, res |-> r.res])
                /\ errorsChan' = errorsChan
    /\ wpc' = [wpc EXCEPT ![f] = "done"]
    /\ UNCHANGED classVars
    /\ UNCHANGED <<args, disk, pc, files, spawned, i,
                   aggregatedResults, skippedFiles, collected, ret>>

\* `case res := <-resultsChan`
MergeResult(agg, res) == AddResults(agg, res)

RecvResultReady == pc = "collect" /\ i < Len(files) /\ resultsChan # <<>>

ExecRecvResult ==
    /\ RecvResultReady
    /\ aggregatedResults' = MergeResult(aggregatedResults, Head(resultsChan).res)
    /\ resultsChan' = Tail(resultsChan)
    /\ collected' = Append(collected, [file |-> Head(resultsChan).file, ok |-> TRUE])
    /\ i' = i + 1
    /\ UNCHANGED classVars
    /\ UNCHANGED <<args, disk, pc, files, spawned, wpc, errorsChan,
                   skippedFiles, ret>>

\* `case err := <-errorsChan`: the totals are left alone, and the path is
\* recorded only for an *os.PathError
\* Mutant of MergeError: an error makes the loop start the totals afresh
MergeErrorResets(agg, err) == ZeroResults

MergeError(agg, err) == agg

RecordSkipped(skipped, err) ==
    IF err.type = "PathError" THEN Append(skipped, err.file) ELSE skipped

RecvErrorReady == pc = "collect" /\ i < Len(files) /\ errorsChan # <<>>

ExecRecvError ==
    /\ RecvErrorReady
    /\ aggregatedResults' = MergeError(aggregatedResults, Head(errorsChan))
    /\ skippedFiles' = RecordSkipped(skippedFiles, Head(errorsChan))
    /\ errorsChan' = Tail(errorsChan)
    /\ collected' = Append(collected, [file |-> Head(errorsChan).file, ok |-> FALSE])
    /\ i' = i + 1
    /\ UNCHANGED classVars
    /\ UNCHANGED <<args, disk, pc, files, spawned, wpc, resultsChan, ret>>

\* After the loop: the logging and validateThresholds
\* Mutant of ExecReturn: the threshold error is logged and not returned
ExecReturnSwallowed(agg, a) == Nil

ExecReturn(agg, a) == validateThresholds(agg, a)

ValidateReady == pc = "collect" /\ i = Len(files)

ExecValidate ==
    /\ ValidateReady
    /\ ret' = ExecReturn(aggregatedResults, args)
    /\ pc' = "done"
    /\ UNCHANGED classVars
    /\ UNCHANGED <<args, disk, files, spawned, wpc, resultsChan, errorsChan,
                   i, aggregatedResults, skippedFiles, collected>>

Next ==
    \/ ExecLocate
    \/ ExecSpawn
    \/ \E f \in 1..Len(disk) : Worker(f)
    \/ ExecRecvResult
    \/ ExecRecvError
    \/ ExecValidate

Spec == Init /\ [][Next]_vars

\* ENABLED <<Next>>_vars, spelled out: past its Ready condition an action
\* only assigns, and every step of Next changes pc, spawned, wpc or i
CanStep ==
    \/ LocateReady
    \/ SpawnReady
    \/ \E f \in 1..Len(disk) : WorkerReady(f)
    \/ RecvResultReady
    \/ RecvErrorReady
    \/ ValidateReady

\* ------------------------------------------------------------------------
\* validateThresholds on its own: any totals, any configuration
\* ------------------------------------------------------------------------
ThrInit ==
    /\ args \in ThrArgs
    /\ aggregatedResults \in {r \in ThrResults : r.Failures + r.Skipped <= r.Total}
    /\ pc = "thresholds"
    /\ disk = <<>>
    /\ files = <<>>
    /\ spawned = 0
    /\ wpc = <<>>
    /\ resultsChan = <<>>
    /\ errorsChan = <<>>
    /\ i = 0
    /\ skippedFiles = <<>>
    /\ collected = <<>>
    /\ ret = Pending
    /\ NoClass

ThrEvaluate ==
    /\ pc = "thresholds"
    /\ ret' = validateThresholds(aggregatedResults, args)
    /\ pc' = "evaluated"
    /\ UNCHANGED classVars
    /\ UNCHANGED <<args, disk, files, spawned, wpc, resultsChan, errorsChan,
                   i, aggregatedResults, skippedFiles, collected>>

ThrNext == ThrEvaluate

SpecThresholds == ThrInit /\ [][ThrNext]_vars

\* ------------------------------------------------------------------------
\* Properties of Exec (Spec)
\* ------------------------------------------------------------------------
Located == files # <<>>
Finished == pc = "done" /\ Located
FileSet == {files[k] : k \in 1..Len(files)}
CollectedSet == {collected[k].file : k \in 1..Len(collected)}

\* What processFile yields for a path: fixed by the file's content.  The
\* table holds processFile of every file a directory can hold.
OutcomeOf == [c \in ExecFiles |-> processFile(c)]
Outcome(f) == OutcomeOf[disk[f]]
Succeeded == {f \in FileSet : Outcome(f).err = Nil}

\* The Results of the successful paths of a sequence summed in the order of
\* the sequence: the counts as integers, the durations in float64
RECURSIVE SumOutcomes(_)
SumOutcomes(paths) ==
    IF paths = <<>> THEN ZeroResults
    ELSE LET front == SumOutcomes(SubSeq(paths, 1, Len(paths) - 1))
             last  == Outcome(paths[Len(paths)])
         IN  IF last.err = Nil THEN AddResults(front, last.res) ELSE front

CollectedPaths == [k \in 1..Len(collected) |-> collected[k].file]

\* C1: the collection loop receives exactly one outcome per dispatched
\* file: the outcomes received so far are as many as the loop counter, they
\* belong to pairwise different dispatched files, each is the file's own
\* outcome (a result iff processFile succeeded), and when Exec is through
\* every dispatched file has been received and both channels are empty.
C1_OneOutcomePerFile ==
    /\ Len(collected) = i
    /\ \A a, b \in 1..Len(collected) : a # b => collected[a].file # collected[b].file
    /\ \A k \in 1..Len(collected) :
          /\ collected[k].file \in FileSet
          /\ collected[k].ok = (Outcome(collected[k].file).err = Nil)
    /\ Finished => /\ Len(collected) = Len(files)
                   /\ CollectedSet = FileSet
                   /\ resultsChan = <<>>
                   /\ errorsChan = <<>>

C1_Witness ==
    /\ Finished
    /\ \E a, b \in 1..Len(collected) : collected[a].ok /\ ~collected[b].ok

\* C2: the accumulator holds the sum, field by field, of the Results of the
\* files received so far whose processFile succeeded (DurationMS being the
\* float64 sum in the order of receipt); when the loop is through these are
\* exactly the successful files, a failed file having added nothing.
C2_TotalsAreSumOfSuccesses ==
    /\ aggregatedResults = SumOutcomes(CollectedPaths)
    /\ Finished =>
          LET byFile == SumOutcomes(files)
          IN  /\ {collected[k].file : k \in {j \in 1..Len(collected) : collected[j].ok}}
                    = Succeeded
              /\ aggregatedResults.Total = byFile.Total
              /\ aggregatedResults.Failures = byFile.Failures
              /\ aggregatedResults.Skipped = byFile.Skipped

C2_Witness ==
    /\ Finished
    /\ Cardinality(Succeeded) >= 2
    /\ FileSet \ Succeeded # {}
    /\ \E k \in 1..(Len(collected) - 1) : ~collected[k].ok /\ collected[k + 1].ok

\* C3: the final totals are a function of the files and their outcomes
\* alone, whatever the order of receipt: they equal the totals of the
\* successful files summed in the order of dispatch.
C3_TotalsOrderIndependent ==
    Finished => aggregatedResults = SumOutcomes(files)

\* C4: when every located file fails to parse, Exec does not return success.
C4_AllFailedIsNotSuccess ==
    (Finished /\ Succeeded = {}) => ret # Nil

\* C5: Exec returns nil only if locateFiles succeeded with at least one file
\* and validateThresholds passes the aggregated totals; a locate failure is
\* returned before any worker is started; otherwise Exec returns what
\* validateThresholds returns.
C5_SuccessOnlyOnLocateAndPass ==
    LET loc == locateFiles(args.ReportFilenamePattern, disk)
    IN  /\ (pc = "done" /\ ret = Nil) =>
              /\ loc.err = Nil
              /\ Len(files) >= 1
              /\ files = loc.files
              /\ validateThresholds(aggregatedResults, args) = Nil
        /\ (pc = "done" /\ loc.err # Nil) =>
              /\ ret = Err("failedToLocate")
              /\ spawned = 0
              /\ \A f \in 1..Len(disk) : wpc[f] = "idle"
              /\ collected = <<>>
        /\ (pc = "done" /\ loc.err = Nil) =>
              ret = validateThresholds(aggregatedResults, args)

C5_Witness ==
    /\ pc = "done"
    /\ ret = Nil
    /\ aggregatedResults.Total > 0
    /\ Len(files) < Len(disk)

\* C10: a configuration with an empty mode that ValidateInputs accepts is
\* evaluated by Exec under the absolute rules.
C10_EmptyModeIsAbsolute ==
    (Finished /\ ValidateInputs(args) = Nil /\ args.ThresholdMode = "") =>
        ret = validateThresholds(aggregatedResults,
                                 [args EXCEPT !.ThresholdMode = ThresholdModeAbsolute])

\* ------------------------------------------------------------------------
\* Properties of validateThresholds (SpecThresholds)
\* ------------------------------------------------------------------------
Evaluated == pc = "evaluated"
KnownMode == args.ThresholdMode \in {ThresholdModeAbsolute, ThresholdModePercentage}

AbsoluteExceeded ==
    \/ args.FailedFails > 0 /\ aggregatedResults.Failures > args.FailedFails
    \/ args.FailedSkips > 0 /\ aggregatedResults.Skipped > args.FailedSkips

PercentageExceeded ==
    \/ /\ args.FailedFails > 0
       /\ aggregatedResults.Failures * 100 > args.FailedFails * aggregatedResults.Total
    \/ /\ args.FailedSkips > 0
       /\ aggregatedResults.Skipped * 100 > args.FailedSkips * aggregatedResults.Total

\* C6: with FailureOnFailedTestConfig set and Failures > 0 validateThresholds
\* returns the failed-configuration error whatever the mode and the limits:
\* the check comes before the mode is looked at.
C6_FailedConfigFirst ==
    (Evaluated /\ args.FailureOnFailedTestConfig /\ aggregatedResults.Failures > 0)
        => ret = Err("failedConfig")

C6_Witness ==
    /\ Evaluated
    /\ args.FailureOnFailedTestConfig
    /\ aggregatedResults.Failures > 0
    /\ args.ThresholdMode = ThresholdModeAbsolute
    /\ ~AbsoluteExceeded
    /\ args.FailedFails > 0

\* C7: in absolute mode without FailureOnFailedTestConfig validateThresholds
\* fails iff a limit is positive and the observed count is strictly above it.
C7_AbsoluteRule ==
    (Evaluated /\ args.ThresholdMode = ThresholdModeAbsolute
               /\ ~args.FailureOnFailedTestConfig)
        => ((ret # Nil) <=> AbsoluteExceeded)

C7_Witness ==
    /\ Evaluated
    /\ args.ThresholdMode = ThresholdModeAbsolute
    /\ ~args.FailureOnFailedTestConfig
    /\ args.FailedFails > 0
    /\ aggregatedResults.Failures = args.FailedFails + 1
    /\ ret # Nil

\* C8: in percentage mode without FailureOnFailedTestConfig validateThresholds
\* passes when Total = 0 and otherwise fails iff a limit is positive and the
\* observed rate is strictly above it (Failures*100 > FailedFails*Total, or
\* the same for the skips).
C8_PercentageRule ==
    (Evaluated /\ args.ThresholdMode = ThresholdModePercentage
               /\ ~args.FailureOnFailedTestConfig)
        => IF aggregatedResults.Total = 0
           THEN ret = Nil
           ELSE (ret # Nil) <=> PercentageExceeded

\* C9 as claimed: for a mode that is neither "absolute" nor "percentage"
\* validateThresholds returns the invalid-mode error and nothing else.
C9_UnknownModeIsInvalidModeError ==
    (Evaluated /\ ~KnownMode) => ret = Err("invalidThresholdMode")

\* C9 amended: for such a mode validateThresholds never passes; it returns
\* the failed-configuration error when FailureOnFailedTestConfig is set and
\* Failures > 0, and the invalid-mode error otherwise.
C9_UnknownModeNeverPasses ==
    (Evaluated /\ ~KnownMode) =>
        /\ ret # Nil
        /\ ret = IF args.FailureOnFailedTestConfig /\ aggregatedResults.Failures > 0
                 THEN Err("failedConfig")
                 ELSE Err("invalidThresholdMode")

C9_Witness ==
    /\ Evaluated
    /\ args.ThresholdMode = "bogus"
    /\ aggregatedResults.Failures > 0
    /\ ~args.FailureOnFailedTestConfig
    /\ ret = Err("invalidThresholdMode")

\* ------------------------------------------------------------------------
\* ValidateInputs on its own: any configuration
\* ------------------------------------------------------------------------
InLimits == (0 - 1)..MaxLimit

InModes == Modes \cup {"Absolute", "PERCENTAGE"}

InArgs ==
    [ReportFilenamePattern : {"", "*.xml"},
     FailedFails : InLimits, FailedSkips : InLimits,
     FailureOnFailedTestConfig : BOOLEAN,
     ThresholdMode : InModes]

InInit ==
    /\ args \in InArgs
    /\ pc = "inputs"
    /\ disk = <<>>
    /\ files = <<>>
    /\ spawned = 0
    /\ wpc = <<>>
    /\ resultsChan = <<>>
    /\ errorsChan = <<>>
    /\ i = 0
    /\ aggregatedResults = ZeroResults
    /\ skippedFiles = <<>>
    /\ collected = <<>>
    /\ ret = Pending
    /\ NoClass

InEvaluate ==
    /\ pc = "inputs"
    /\ ret' = ValidateInputs(args)
    /\ pc' = "validated"
    /\ UNCHANGED classVars
    /\ UNCHANGED <<args, disk, files, spawned, wpc, resultsChan, errorsChan,
                   i, aggregatedResults, skippedFiles, collected>>

InNext == InEvaluate

SpecInputs == InInit /\ [][InNext]_vars

\* ------------------------------------------------------------------------
\* Properties of ValidateInputs (SpecInputs)
\* ------------------------------------------------------------------------
Validated == pc = "validated"

\* C11: ValidateInputs returns an error iff the pattern is empty, or
\* FailedFails or FailedSkips is negative, or the mode is non-empty and is
\* neither "absolute" nor "percentage"; otherwise it returns nil.
C11_ValidateInputsRule ==
    Validated =>
        ((ret # Nil) <=>
            \/ args.ReportFilenamePattern = ""
            \/ args.FailedFails < 0
            \/ args.FailedSkips < 0
            \/ /\ args.ThresholdMode # ""
               /\ args.ThresholdMode \notin {"absolute", "percentage"})

C11_Witness ==
    /\ Validated
    /\ args.ReportFilenamePattern # ""
    /\ args.FailedFails >= 0
    /\ args.FailedSkips < 0
    /\ args.ThresholdMode = ""
    /\ ret # Nil

\* ------------------------------------------------------------------------
\* aggregateClassResults on its own, one loop iteration at a time
\* ------------------------------------------------------------------------
MaxTests == 2

ClassTests ==
    { [Name |-> nm, Status |-> st, DurationMS |-> du, IsConfig |-> FALSE] :
        nm \in {"a", "b"},
        st \in {"FAIL", "SKIP", "PASS", "fail", "Skip"},
        du \in { <<"2">>, <<"0", ".", "1">>, <<"x">>, <<>> } }

Classes ==
    { [Name |-> "class", Tests |-> ts] :
        ts \in UNION { [1..n -> ClassTests] : n \in 0..MaxTests } }

ClassInit ==
    /\ class \in Classes
    /\ idx = 0
    /\ results = ZeroResults
    /\ failedTests = <<>>
    /\ skippedTests = <<>>
    /\ pc = "classLoop"
    /\ args = [ReportFilenamePattern |-> "", FailedFails |-> 0, FailedSkips |-> 0,
               FailureOnFailedTestConfig |-> FALSE, ThresholdMode |-> ""]
    /\ disk = <<>>
    /\ files = <<>>
    /\ spawned = 0
    /\ wpc = <<>>
    /\ resultsChan = <<>>
    /\ errorsChan = <<>>
    /\ i = 0
    /\ aggregatedResults = ZeroResults
    /\ skippedFiles = <<>>
    /\ collected = <<>>
    /\ ret = Pending

\* `for _, test := range class.Tests { ... }`: one iteration
ClassIter ==
    /\ pc = "classLoop"
    /\ idx < Len(class.Tests)
    /\ LET acc == ClassStep([results |-> results, failed |-> failedTests,
                             skipped |-> skippedTests], class.Tests[idx + 1])
       IN  /\ results' = acc.results
           /\ failedTests' = acc.failed
           /\ skippedTests' = acc.skipped
    /\ idx' = idx + 1
    /\ UNCHANGED <<args, disk, pc, files, spawned, wpc, resultsChan, errorsChan,
                   i, aggregatedResults, skippedFiles, collected, ret, class>>

\* `return results, failedTests, skippedTests`
ClassReturn ==
    /\ pc = "classLoop"
    /\ idx = Len(class.Tests)
    /\ pc' = "classDone"
    /\ UNCHANGED classVars
    /\ UNCHANGED <<args, disk, files, spawned, wpc, resultsChan, errorsChan,
                   i, aggregatedResults, skippedFiles, collected, ret>>

ClassNext == ClassIter \/ ClassReturn

SpecClass == ClassInit /\ [][ClassNext]_vars

\* ------------------------------------------------------------------------
\* Properties of aggregateClassResults (SpecClass)
\* ------------------------------------------------------------------------
ClassDone == pc = "classDone"

\* The records of the class the loop has been through
Processed == SubSeq(class.Tests, 1, idx)

WithStatus(tests, status) == SelectSeq(tests, LAMBDA t : t.Status = status)

NamesOf(tests) == [k \in 1..Len(tests) |-> tests[k].Name]

\* The durations that parse, added in float64 in the order of the records
RECURSIVE SumDurations(_)
SumDurations(tests) ==
    IF tests = <<>> THEN F64Zero
    ELSE LET front == SumDurations(SubSeq(tests, 1, Len(tests) - 1))
             d     == ParseFloat(tests[Len(tests)].DurationMS)
         IN  IF d.ok THEN F64Add(front, d.val) ELSE front

\* C12: after each record Total has grown by one; Failures and the failed
\* list hold exactly the records whose status is the string "FAIL", Skipped
\* and the skipped list exactly those whose status is "SKIP", in the order
\* of the records; a record of any other status, other letter cases
\* included, is in neither bucket and neither list.
C12_StatusBuckets ==
    /\ results.Total = idx
    /\ results.Failures = Len(WithStatus(Processed, "FAIL"))
    /\ failedTests = NamesOf(WithStatus(Processed, "FAIL"))
    /\ results.Skipped = Len(WithStatus(Processed, "SKIP"))
    /\ skippedTests = NamesOf(WithStatus(Processed, "SKIP"))
    /\ ClassDone =>
          /\ idx = Len(class.Tests)
          /\ [results |-> results, failed |-> failedTests, skipped |-> skippedTests]
                = aggregateClassResults(class)

C12_Witness ==
    /\ ClassDone
    /\ Len(class.Tests) = 2
    /\ class.Tests[1].Status = "fail"
    /\ class.Tests[2].Status = "SKIP"
    /\ results.Failures = 0
    /\ skippedTests = <<class.Tests[2].Name>>

LocFiles ==
    { MkFile(m, TRUE, ReportFail) :
        m \in {ModeReadWrite, ModeReadOnly, ModeWriteOnly, ModeNone} }
    \cup { [MkFile(ModeReadWrite, TRUE, ReportFail) EXCEPT !.exists = FALSE] }

LocDisks == UNION { [1..n -> LocFiles] : n \in 0..MaxFiles }

LocInit ==
    /\ args \in [ReportFilenamePattern : {"", "[", "*.xml"},
                  FailedFails : {0}, FailedSkips : {0},
                  FailureOnFailedTestConfig : {FALSE},
                  ThresholdMode : {ThresholdModeAbsolute}]
    /\ disk \in LocDisks
    /\ pc = "locate"
    /\ files = <<>>
    /\ spawned = 0
    /\ wpc = Idle(disk)
    /\ resultsChan = <<>>
    /\ errorsChan = <<>>
    /\ i = 0
    /\ aggregatedResults = ZeroResults
    /\ skippedFiles = <<>>
    /\ collected = <<>>
    /\ ret = Pending
    /\ NoClass

LocEvaluate ==
    /\ pc = "locate"
    /\ LET r == locateFiles(args.ReportFilenamePattern, disk)
       IN  /\ files' = r.files
           /\ ret' = r.err
    /\ pc' = "located"
    /\ UNCHANGED classVars
    /\ UNCHANGED <<args, disk, spawned, wpc, resultsChan, errorsChan,
                   i, aggregatedResults, skippedFiles, collected>>

LocNext == LocEvaluate

SpecLocate == LocInit /\ [][LocNext]_vars

\* ------------------------------------------------------------------------
\* Properties of locateFiles (SpecLocate)
\* ------------------------------------------------------------------------
LocDone == pc = "located"

\* A path that can be accessed and whose file has read permission
CanRead(path) == disk[path].exists /\ PermBit(disk[path].perm, OwnerRead)

\* C15: locateFiles returns exactly the matches that can be accessed and
\* have read permission, in match order; it fails with the no-match error
\* when nothing matches and with the no-readable-files error exactly when
\* something matches and no match is readable.
C15_KeepsExactlyTheReadable ==
    LET g        == Glob(args.ReportFilenamePattern, disk)
        readable == SelectSeq(g.matches, CanRead)
    IN  (LocDone /\ g.err = Nil) =>
            IF Len(g.matches) = 0
            THEN ret = Err("noFilesFound") /\ files = <<>>
            ELSE IF Len(readable) = 0
            THEN ret = Err("noReadableFiles") /\ files = <<>>
            ELSE ret = Nil /\ files = readable

\* ------------------------------------------------------------------------
\* processFile on its own: any file
\* ------------------------------------------------------------------------
MaxSuites == 2
MaxClasses == 2

RepClasses ==
    { [Name |-> "k1",
       Tests |-> << [MkTest("t1", "FAIL", <<"0", ".", "1">>) EXCEPT !.IsConfig = TRUE] >>],
      [Name |-> "k2",
       Tests |-> << MkTest("t2", "SKIP", <<"x">>),
                    [MkTest("t3", "PASS", <<"0", ".", "4">>) EXCEPT !.IsConfig = TRUE] >>] }

RepSuites ==
    { [Name |-> "suite", Classes |-> cs] :
        cs \in UNION { [1..n -> RepClasses] : n \in 0..MaxClasses } }

Reports ==
    { [Suites |-> ss] : ss \in UNION { [1..n -> RepSuites] : n \in 0..MaxSuites } }

RepFiles ==
    { MkFile(ModeReadWrite, TRUE, r) : r \in Reports }
    \cup { MkFile(ModeReadWrite, FALSE, EmptyReport),
           MkFile(ModeWriteOnly, TRUE, ReportFail),
           [MkFile(ModeReadWrite, TRUE, ReportFail) EXCEPT !.exists = FALSE] }

RepInit ==
    /\ disk \in { <<f>> : f \in RepFiles }
    /\ pc = "process"
    /\ args = [ReportFilenamePattern |-> "*.xml", FailedFails |-> 0, FailedSkips |-> 0,
               FailureOnFailedTestConfig |-> FALSE, ThresholdMode |-> ThresholdModeAbsolute]
    /\ files = <<1>>
    /\ spawned = 0
    /\ wpc = Idle(disk)
    /\ resultsChan = <<>>
    /\ errorsChan = <<>>
    /\ i = 0
    /\ aggregatedResults = ZeroResults
    /\ skippedFiles = <<>>
    /\ collected = <<>>
    /\ ret = Pending
    /\ NoClass

\* res, err := processFile(f)
RepProcess ==
    /\ pc = "process"
    /\ LET r == processFile(disk[files[1]])
       IN  /\ results' = r.res
           /\ ret' = r.err
    /\ pc' = "processed"
    /\ UNCHANGED <<args, disk, files, spawned, wpc, resultsChan, errorsChan,
                   i, aggregatedResults, skippedFiles, collected,
                   class, idx, failedTests, skippedTests>>

RepNext == RepProcess

SpecReport == RepInit /\ [][RepNext]_vars

\* ------------------------------------------------------------------------
\* Properties of processFile (SpecReport)
\* ------------------------------------------------------------------------
RepDone == pc = "processed"

\* The file processFile was called with, and whether it decodes to a report
TheFile == disk[files[1]]
Decoded == TheFile.exists /\ PermBit(TheFile.perm, OwnerRead) /\ TheFile.wellFormed

\* The suites of the report that have at least one class
SuitesWithClasses == SelectSeq(TheFile.report.Suites, LAMBDA su : Len(su.Classes) > 0)

\* C14: for a decoded report without suites processFile returns an error
\* and zero Results; for one with at least one suite it succeeds, zero-class
\* suites or not, and the totals are those of the suites that have classes:
\* a zero-class suite adds zero to every field.
C14_EmptySuitesRejectedEmptyClassesAccepted ==
    (RepDone /\ Decoded) =>
        IF Len(TheFile.report.Suites) = 0
        THEN ret = Err("noSuites") /\ results = ZeroResults
        ELSE /\ ret = Nil
             /\ results = FoldSuites(EmptyAgg, SuitesWithClasses).results
             /\ \A k \in 1..Len(TheFile.report.Suites) :
                   Len(TheFile.report.Suites[k].Classes) = 0 =>
                       aggregateSuiteResults(TheFile.report.Suites[k]).results = ZeroResults

C14_Witness ==
    /\ RepDone
    /\ Decoded
    /\ Len(TheFile.report.Suites) = 2
    /\ Len(TheFile.report.Suites[1].Classes) = 0
    /\ Len(TheFile.report.Suites[2].Classes) = 2
    /\ ret = Nil
    /\ results.Total = 3

\* The report with the is-config flag of every record replaced by flag(old)
WithConfig(report, flag(_)) ==
    [Suites |->
       [s \in 1..Len(report.Suites) |->
          [report.Suites[s] EXCEPT !.Classes =
             [c \in 1..Len(@) |->
                [@[c] EXCEPT !.Tests =
                   [t \in 1..Len(@) |-> [@[t] EXCEPT !.IsConfig = flag(@)]]]]]]]

ConfigVariants(report) ==
    { WithConfig(report, LAMBDA b : ~b),
      WithConfig(report, LAMBDA b : TRUE),
      WithConfig(report, LAMBDA b : FALSE) }

VerdictArgs ==
    [ReportFilenamePattern : {"*.xml"},
     FailedFails : {0, 1}, FailedSkips : {0, 1},
     FailureOnFailedTestConfig : BOOLEAN,
     ThresholdMode : {ThresholdModeAbsolute, ThresholdModePercentage}]

\* C19: a report that differs from the processed one in nothing but the
\* is-config flags of its records gives the same outcome of processFile, the
\* same totals, and with them the same outcome of validateThresholds under
\* every configuration, FailureOnFailedTestConfig = true included.
C19_VerdictIgnoresIsConfig ==
    RepDone =>
        \A r \in ConfigVariants(TheFile.report) :
            LET other == processFile([TheFile EXCEPT !.report = r])
            IN  /\ other.err = ret
                /\ other.res = results
                /\ \A a \in VerdictArgs :
                      validateThresholds(other.res, a) = validateThresholds(results, a)

C19_Witness ==
    /\ RepDone
    /\ ret = Nil
    /\ results.Failures > 0
    /\ \E r \in ConfigVariants(TheFile.report) : r # TheFile.report
    /\ validateThresholds(results, [ReportFilenamePattern |-> "*.xml",
                                    FailedFails |-> 0, FailedSkips |-> 0,
                                    FailureOnFailedTestConfig |-> TRUE,
                                    ThresholdMode |-> ThresholdModeAbsolute])
          = Err("failedConfig")

\* ------------------------------------------------------------------------
\* Further properties of Exec (Spec)
\* ------------------------------------------------------------------------
TotalBounds(r) == r.Total >= r.Failures + r.Skipped

\* The Results of every class, of every suite and of the whole of each
\* report of the directory
ReportLevelsBounded ==
    \A f \in 1..Len(disk) :
        /\ TotalBounds(Outcome(f).res)
        /\ \A s \in 1..Len(disk[f].report.Suites) :
              LET suite == disk[f].report.Suites[s]
              IN  /\ TotalBounds(aggregateSuiteResults(suite).results)
                  /\ \A k \in 1..Len(suite.Classes) :
                        TotalBounds(aggregateClassResults(suite.Classes[k]).results)

\* C16: Total >= Failures + Skipped holds for the Results of every class,
\* suite and file (the directory does not change, so these are looked at
\* when Exec starts), for every Results value in flight from a worker, and
\* for the accumulator of Exec in every state, so after every merge step.
C16_TotalBoundsBuckets ==
    /\ pc = "start" => ReportLevelsBounded
    /\ \A k \in 1..Len(resultsChan) : TotalBounds(resultsChan[k].res)
    /\ TotalBounds(aggregatedResults)

C16_Witness ==
    /\ pc = "collect"
    /\ i >= 2
    /\ resultsChan # <<>>
    /\ aggregatedResults.Failures > 0
    /\ aggregatedResults.Skipped > 0
    /\ aggregatedResults.Total > aggregatedResults.Failures + aggregatedResults.Skipped

\* ------------------------------------------------------------------------
\* Further properties of validateThresholds (SpecThresholds)
\* ------------------------------------------------------------------------
FailLimitExceeded ==
    IF args.ThresholdMode = ThresholdModeAbsolute
    THEN args.FailedFails > 0 /\ aggregatedResults.Failures > args.FailedFails
    ELSE /\ args.FailedFails > 0
         /\ aggregatedResults.Failures * 100 > args.FailedFails * aggregatedResults.Total

SkipLimitExceeded ==
    IF args.ThresholdMode = ThresholdModeAbsolute
    THEN args.FailedSkips > 0 /\ aggregatedResults.Skipped > args.FailedSkips
    ELSE /\ args.FailedSkips > 0
         /\ aggregatedResults.Skipped * 100 > args.FailedSkips * aggregatedResults.Total

\* h hundredths is the rate count/Total in per cent, to the nearest hundredth
IsRateOf(h, count) ==
    LET d == h * aggregatedResults.Total - 10000 * count
    IN  2 * d <= aggregatedResults.Total /\ 0 - 2 * d <= aggregatedResults.Total

\* The reason is the one of the failure metric, with its value and limit
NamesFailureMetric ==
    IF args.ThresholdMode = ThresholdModeAbsolute
    THEN /\ ret.kind = "absoluteFailed"
         /\ ret.metric = "failed"
         /\ ret.observed = aggregatedResults.Failures
         /\ ret.threshold = args.FailedFails
    ELSE /\ ret.kind = "percentageFailed"
         /\ ret.metric = "failure"
         /\ IsRateOf(ret.observed, aggregatedResults.Failures)
         /\ ret.threshold = 100 * args.FailedFails

\* The reason is the one of the skip metric, with its value and limit
NamesSkipMetric ==
    IF args.ThresholdMode = ThresholdModeAbsolute
    THEN /\ ret.kind = "absoluteFailed"
         /\ ret.metric = "skipped"
         /\ ret.observed = aggregatedResults.Skipped
         /\ ret.threshold = args.FailedSkips
    ELSE /\ ret.kind = "percentageFailed"
         /\ ret.metric = "skip"
         /\ IsRateOf(ret.observed, aggregatedResults.Skipped)
         /\ ret.threshold = 100 * args.FailedSkips

\* C17 as claimed: in absolute or percentage mode, when both limits are
\* exceeded the returned reason is the one of the failure metric.
C17_BothExceededReportsFailures ==
    (Evaluated /\ KnownMode /\ FailLimitExceeded /\ SkipLimitExceeded)
        => NamesFailureMetric

\* C17 amended: with FailureOnFailedTestConfig set and Failures > 0 the
\* reason is the failed-configuration one, which comes first.  Otherwise,
\* when both limits are exceeded the reason is the one of the failure
\* metric; and every threshold failure names its metric, the observed value
\* and the limit of that metric, the skip metric being named only when the
\* failure limit is not exceeded.
C17_FirstViolatedRuleWins ==
    (Evaluated /\ KnownMode) =>
        IF args.FailureOnFailedTestConfig /\ aggregatedResults.Failures > 0
        THEN ret = Err("failedConfig")
        ELSE /\ (FailLimitExceeded /\ SkipLimitExceeded) => NamesFailureMetric
             /\ ret # Nil =>
                   \/ NamesFailureMetric
                   \/ NamesSkipMetric /\ ~FailLimitExceeded

C17_Witness ==
    /\ Evaluated
    /\ args.ThresholdMode = ThresholdModePercentage
    /\ ~args.FailureOnFailedTestConfig
    /\ aggregatedResults.Total = 3
    /\ FailLimitExceeded
    /\ SkipLimitExceeded
    /\ ret.metric = "failure"
    /\ ret.observed = 3333
    /\ ret.threshold = 200

\* ------------------------------------------------------------------------
\* Further properties of Exec (Spec): the skipped files
\* ------------------------------------------------------------------------
LoopOver == Located /\ i = Len(files)

\* C18: after the collection loop skippedFiles holds the files whose
\* processFile returned an error, one entry each.
C18_SkippedFilesTracked ==
    LoopOver =>
        /\ Len(skippedFiles) = Cardinality(FileSet \ Succeeded)
        /\ {skippedFiles[k] : k \in 1..Len(skippedFiles)} = FileSet \ Succeeded

\* ------------------------------------------------------------------------
\* Exec under fair scheduling.  The Go scheduler runs every goroutine that
\* can take a step, so some enabled step of Exec or of a worker is always
\* taken in the end.  One configuration suffices: the mode and the limits
\* have no part in the scheduling.
\* ------------------------------------------------------------------------
LiveInit ==
    /\ Init
    /\ args.ThresholdMode = ThresholdModeAbsolute
    /\ ~args.FailureOnFailedTestConfig

\* WF_vars(Next), with CanStep for ENABLED <<Next>>_vars
FairNext == []<>(~CanStep) \/ []<><<Next>>_vars

SpecLive == LiveInit /\ [][Next]_vars /\ FairNext

WorkersOf(state) == {f \in 1..Len(disk) : wpc[f] = state}

\* A worker that has been started and has not sent can send at once
NoSendBlocks == \A f \in WorkersOf("running") : WorkerReady(f)

\* Every worker that is through has sent one value and no other value was
\* sent: the values in the channels and the values received are as many as
\* the workers that are through
OneSendPerWorker ==
    Len(resultsChan) + Len(errorsChan) + i = Cardinality(WorkersOf("done"))

\* The loop waits on empty channels only while a worker has yet to send
LoopWaitsForRunningWorker ==
    (pc = "collect" /\ i < Len(files) /\ resultsChan = <<>> /\ errorsChan = <<>>)
        => WorkersOf("running") # {}

\* When the loop is over every worker has sent and nothing is left unread
AllSentWhenLoopOver ==
    LoopOver =>
        /\ \A f \in FileSet : wpc[f] = "done"
        /\ resultsChan = <<>>
        /\ errorsChan = <<>>

\* C20: under fair scheduling Exec always returns and no worker stays
\* behind; no send ever blocks, each worker sends exactly once, the
\* collection loop never waits for an outcome that will not arrive, and
\* when the loop ends every worker has completed its send.
C20_TerminatesNoWorkerBlocked ==
    /\ [](NoSendBlocks /\ OneSendPerWorker /\ LoopWaitsForRunningWorker
            /\ AllSentWhenLoopOver)
    /\ <>[](pc = "done" /\ WorkersOf("running") = {})

C20_Witness ==
    /\ pc = "collect"
    /\ i = 0
    /\ Len(files) >= 2
    /\ resultsChan # <<>>
    /\ errorsChan # <<>>
    /\ Len(resultsChan) + Len(errorsChan) = Len(files)
====
